---- MODULE Spec2Model ----
(***************************************************************************)
(* A model of the rtc-hal calendar/time core: the DateTime value with its  *)
(* validating constructor and setters (src/src/datetime.rs), the weekday   *)
(* derivation by Zeller's congruence, and the BCD codec (src/src/bcd.rs).  *)
(*                                                                         *)
(* Results of fallible operations are strings: "Ok", the name of a         *)
(* DateTimeError variant, or "Panic" for an arithmetic-overflow or         *)
(* debug-assertion fault.  A Weekday is the string of its variant name.    *)
(***************************************************************************)
EXTENDS Integers, Sequences, FiniteSets

VARIABLES
    profile,    \* the build profile: "dev" (checks on) or "release" (checks off)
    pc,         \* "start": no DateTime yet; "live": one exists; "failed": new() returned Err
    dt,         \* the DateTime's six fields
    op,         \* the last operation called
    arg,        \* its argument (a record of six for new, a number for a setter)
    old,        \* the six fields as they were before the last operation
    res,        \* its result: "Ok", an error variant, or "Panic"
    wd,         \* the Weekday returned by the last calculate_weekday, or "none"
    bcd_in,     \* the byte given to the first BCD call
    bcd_calls,  \* the BCD calls made so far, each fed the previous one's output
    fn_in,      \* the input given to a free function or conversion under test
    fn_calls    \* the calls made on it so far, each fed the previous one's output

vars == <<profile, pc, dt, op, arg, old, res, wd, bcd_in, bcd_calls, fn_in, fn_calls>>

----------------------------------------------------------------------------
(* Bounds of the model and widths of the program's integers.               *)

\* How many of YearSamples the valid-year inputs are drawn from.
NumYears == 5
\* Day arguments are 0, 1, 28..MaxDay and 255.
MaxDay == 32
\* Month arguments are 0..MaxMonth and 255.
MaxMonth == 13
\* How many BCD calls are chained.
MaxCalls == 2
\* How many of YearSamples the start and target dates of a setter sequence
\* are drawn from.
NumSeqYears == 2
\* Custom frequencies are 0..MaxCustomHz, the neighbours of the standard ones
\* and u32::MAX.
MaxCustomHz == 42

\* u8 and u16 wrap modulo these.
U8 == 256
U16 == 65536

YearSamples == <<1970, 2000, 2023, 2024, 65535, 2019, 2100, 1999, 2400>>
Years == {0, 1969} \cup {YearSamples[i] : i \in 1..NumYears}
Months == (0..MaxMonth) \cup {U8 - 1}
Days == {0, 1, U8 - 1} \cup (28..MaxDay)
Hours == {0, 23, 24, U8 - 1}
Minutes == {0, 59, 60}
Seconds == {0, 59, 60}
Bytes == 0..(U8 - 1)

Profiles == {"dev", "release"}
\* cfg(debug_assertions): debug_assert! is compiled in.
debug_assertions == profile = "dev"
\* overflow-checks: + - * on integers panic on overflow instead of wrapping.
overflow_checks == profile = "dev"

ZeroDt == [year |-> 0, month |-> 0, day_of_month |-> 0,
           hour |-> 0, minute |-> 0, second |-> 0]

\* The ? operator on Result<(), E>: the first error, else what follows.
Try(r, next) == IF r # "Ok" THEN r ELSE next

----------------------------------------------------------------------------
(* datetime.rs: calendar helpers.                                          *)

\* A variant with the Julian rule: every fourth year.
is_leap_year_julian(year) == year % 4 = 0

is_leap_year(year) ==
    (year % 4 = 0) /\ (year % 100 # 0 \/ year % 400 = 0)

\* A variant whose fallback arm is the common month length.
days_in_month_default_31(year, month) ==
    CASE month \in {4, 6, 9, 11} -> 30
      [] month = 2 -> IF is_leap_year(year) THEN 29 ELSE 28
      [] OTHER -> 31

days_in_month(year, month) ==
    CASE month \in {1, 3, 5, 7, 8, 10, 12} -> 31
      [] month \in {4, 6, 9, 11} -> 30
      [] month = 2 -> IF is_leap_year(year) THEN 29 ELSE 28
      [] OTHER -> 0

Weekdays == {"Sunday", "Monday", "Tuesday", "Wednesday", "Thursday", "Friday", "Saturday"}

\* Weekday::from_number: Ok(variant) for 1..=7, else Err(InvalidWeekday).
from_number(n) ==
    CASE n = 1 -> "Sunday"
      [] n = 2 -> "Monday"
      [] n = 3 -> "Tuesday"
      [] n = 4 -> "Wednesday"
      [] n = 5 -> "Thursday"
      [] n = 6 -> "Friday"
      [] n = 7 -> "Saturday"
      [] OTHER -> "InvalidWeekday"

\* A variant that leaves the weekday number in 0..6.
calculate_weekday_zero_based(year, month, day_of_month) ==
    LET adjust   == month < 3
        under1   == adjust /\ year < 1
        y        == IF adjust THEN (year - 1) % U16 ELSE year
        m        == IF adjust THEN month + 12 ELSE month
        k        == y % 100
        j        == y \div 100
        sum      == day_of_month + ((13 * (m + 1)) \div 5) + k + (k \div 4) + (j \div 4)
        under2   == sum < 2 * j
        h        == ((sum - 2 * j) % U16) % 7
        weekday_num == (h + 6) % 7
    IN  IF overflow_checks /\ (under1 \/ under2)
        THEN "Panic"
        ELSE from_number(weekday_num % U8)

\* The free function calculate_weekday on u16/u8 operands.  A subtraction
\* below zero panics when overflow checks are on and wraps modulo 2^16 when
\* they are off; the result is a Weekday, "InvalidWeekday" or "Panic".
calculate_weekday(year, month, day_of_month) ==
    LET adjust   == month < 3
        under1   == adjust /\ year < 1
        y        == IF adjust THEN (year - 1) % U16 ELSE year
        m        == IF adjust THEN month + 12 ELSE month
        k        == y % 100
        j        == y \div 100
        sum      == day_of_month + ((13 * (m + 1)) \div 5) + k + (k \div 4) + (j \div 4)
        under2   == sum < 2 * j
        h        == ((sum - 2 * j) % U16) % 7
        weekday_num == ((h + 6) % 7) + 1
    IN  IF overflow_checks /\ (under1 \/ under2)
        THEN "Panic"
        ELSE from_number(weekday_num % U8)

----------------------------------------------------------------------------
(* datetime.rs: DateTime validation, construction and setters.             *)

\* A variant with a chip's upper bound on the year.
validate_year_capped(year) == IF year < 1970 \/ year > 2099 THEN "InvalidYear" ELSE "Ok"

validate_year(year) == IF year < 1970 THEN "InvalidYear" ELSE "Ok"

validate_month(month) == IF month = 0 \/ month > 12 THEN "InvalidMonth" ELSE "Ok"

validate_day(year, month, day) ==
    LET max_day == days_in_month(year, month)
    IN  IF day = 0 \/ day > max_day THEN "InvalidDay" ELSE "Ok"

validate_hour(hour) == IF hour > 23 THEN "InvalidHour" ELSE "Ok"

validate_minute(minute) == IF minute > 59 THEN "InvalidMinute" ELSE "Ok"

validate_second(second) == IF second > 59 THEN "InvalidSecond" ELSE "Ok"

\* A variant checking the day before the month.
validate_day_first(self) ==
    Try(validate_year(self.year),
    Try(validate_day(self.year, self.month, self.day_of_month),
    Try(validate_month(self.month),
    Try(validate_hour(self.hour),
    Try(validate_minute(self.minute),
        validate_second(self.second))))))

validate(self) ==
    Try(validate_year(self.year),
    Try(validate_month(self.month),
    Try(validate_day(self.year, self.month, self.day_of_month),
    Try(validate_hour(self.hour),
    Try(validate_minute(self.minute),
        validate_second(self.second))))))

\* DateTime::new: the candidate value and the result of validating it.
new(year, month, day_of_month, hour, minute, second) ==
    LET cand == [year |-> year, month |-> month, day_of_month |-> day_of_month,
                 hour |-> hour, minute |-> minute, second |-> second]
    IN  [dt |-> cand, res |-> validate(cand)]

\* A variant re-validating the day against the year being replaced.
set_year_stale(self, year) ==
    LET r == Try(validate_year(year),
                 validate_day(self.year, self.month, self.day_of_month))
    IN  [dt |-> IF r = "Ok" THEN [self EXCEPT !.year = year] ELSE self, res |-> r]

\* A variant storing the year before the day is re-validated.
set_year_early_store(self, year) ==
    LET r1 == validate_year(year)
        r  == Try(r1, validate_day(year, self.month, self.day_of_month))
    IN  [dt |-> IF r1 = "Ok" THEN [self EXCEPT !.year = year] ELSE self, res |-> r]

\* Each setter yields the receiver after the call and the call's result.
set_year(self, year) ==
    LET r == Try(validate_year(year),
                 validate_day(year, self.month, self.day_of_month))
    IN  [dt |-> IF r = "Ok" THEN [self EXCEPT !.year = year] ELSE self, res |-> r]

\* A variant that clamps the day to the new month's length.
set_month_clamping(self, month) ==
    LET r       == validate_month(month)
        max_day == days_in_month(self.year, month)
        day     == IF self.day_of_month > max_day THEN max_day ELSE self.day_of_month
    IN  [dt |-> IF r = "Ok" THEN [self EXCEPT !.month = month, !.day_of_month = day]
                ELSE self,
         res |-> r]

\* A variant that does not re-validate the day.
set_month_unchecked(self, month) ==
    LET r == validate_month(month)
    IN  [dt |-> IF r = "Ok" THEN [self EXCEPT !.month = month] ELSE self, res |-> r]

set_month(self, month) ==
    LET r == Try(validate_month(month),
                 validate_day(self.year, month, self.day_of_month))
    IN  [dt |-> IF r = "Ok" THEN [self EXCEPT !.month = month] ELSE self, res |-> r]

\* A variant validating the day on its own, against 1..31.
set_day_of_month_alone(self, day_of_month) ==
    LET r == IF day_of_month = 0 \/ day_of_month > 31 THEN "InvalidDay" ELSE "Ok"
    IN  [dt |-> IF r = "Ok" THEN [self EXCEPT !.day_of_month = day_of_month] ELSE self,
         res |-> r]

set_day_of_month(self, day_of_month) ==
    LET r == validate_day(self.year, self.month, day_of_month)
    IN  [dt |-> IF r = "Ok" THEN [self EXCEPT !.day_of_month = day_of_month] ELSE self,
         res |-> r]

set_hour(self, hour) ==
    LET r == validate_hour(hour)
    IN  [dt |-> IF r = "Ok" THEN [self EXCEPT !.hour = hour] ELSE self, res |-> r]

set_minute(self, minute) ==
    LET r == validate_minute(minute)
    IN  [dt |-> IF r = "Ok" THEN [self EXCEPT !.minute = minute] ELSE self, res |-> r]

set_second(self, second) ==
    LET r == validate_second(second)
    IN  [dt |-> IF r = "Ok" THEN [self EXCEPT !.second = second] ELSE self, res |-> r]

----------------------------------------------------------------------------
(* The DateTime state machine: construct once, then call setters and       *)
(* calculate_weekday in any order with any arguments.                      *)

Init ==
    /\ profile \in Profiles
    /\ pc = "start"
    /\ dt = ZeroDt
    /\ op = "none"
    /\ arg = 0
    /\ old = ZeroDt
    /\ res = "none"
    /\ wd = "none"
    /\ bcd_in = 0
    /\ bcd_calls = <<>>
    /\ fn_in = 0
    /\ fn_calls = <<>>

New(year, month, day_of_month, hour, minute, second) ==
    /\ pc = "start"
    /\ arg' = [year |-> year, month |-> month, day_of_month |-> day_of_month,
                hour |-> hour, minute |-> minute, second |-> second]
    /\ LET r == new(year, month, day_of_month, hour, minute, second)
       IN  /\ dt' = r.dt
           /\ res' = r.res
           /\ pc' = IF r.res = "Ok" THEN "live" ELSE "failed"
    /\ op' = "new"
    /\ old' = dt
    /\ wd' = "none"
    /\ UNCHANGED <<profile, bcd_in, bcd_calls, fn_in, fn_calls>>

\* A setter call: name, argument, and the setter's outcome r.
Setter(name, a, r) ==
    /\ pc = "live"
    /\ op' = name
    /\ arg' = a
    /\ old' = dt
    /\ dt' = r.dt
    /\ res' = r.res
    /\ wd' = "none"
    /\ UNCHANGED <<profile, pc, bcd_in, bcd_calls, fn_in, fn_calls>>

SetYear(year) == Setter("set_year", year, set_year(dt, year))

SetMonth(month) == Setter("set_month", month, set_month(dt, month))

SetDayOfMonth(day) == Setter("set_day_of_month", day, set_day_of_month(dt, day))

SetHour(hour) == Setter("set_hour", hour, set_hour(dt, hour))

SetMinute(minute) == Setter("set_minute", minute, set_minute(dt, minute))

SetSecond(second) == Setter("set_second", second, set_second(dt, second))

\* The method DateTime::calculate_weekday; a panic ends the program.
CalculateWeekday ==
    /\ pc = "live"
    /\ LET r == calculate_weekday(dt.year, dt.month, dt.day_of_month)
       IN  /\ res' = IF r \in Weekdays THEN "Ok" ELSE r
           /\ wd' = IF r \in Weekdays THEN r ELSE "none"
           /\ pc' = IF r = "Panic" THEN "panicked" ELSE pc
    /\ op' = "calculate_weekday"
    /\ arg' = 0
    /\ old' = dt
    /\ UNCHANGED <<profile, dt, bcd_in, bcd_calls, fn_in, fn_calls>>

Next ==
    \/ /\ pc = "start"
       /\ \E y \in Years, mo \in Months, d \in Days,
             h \in Hours, mi \in Minutes, s \in Seconds : New(y, mo, d, h, mi, s)
    \/ \E y \in Years : SetYear(y)
    \/ \E mo \in Months : SetMonth(mo)
    \/ \E d \in Days : SetDayOfMonth(d)
    \/ \E h \in Hours : SetHour(h)
    \/ \E mi \in Minutes : SetMinute(mi)
    \/ \E s \in Seconds : SetSecond(s)
    \/ CalculateWeekday

Spec == Init /\ [][Next]_vars

----------------------------------------------------------------------------
(* bcd.rs: the BCD codec on u8.                                            *)

\* Bitwise | and & on naturals.
RECURSIVE BitOr(_, _)
BitOr(a, b) ==
    IF a = 0 THEN b
    ELSE IF b = 0 THEN a
    ELSE (IF a % 2 = 1 \/ b % 2 = 1 THEN 1 ELSE 0) + 2 * BitOr(a \div 2, b \div 2)

RECURSIVE BitAnd(_, _)
BitAnd(a, b) ==
    IF a = 0 \/ b = 0 THEN 0
    ELSE (IF a % 2 = 1 /\ b % 2 = 1 THEN 1 ELSE 0) + 2 * BitAnd(a \div 2, b \div 2)

\* << and >> by 4 on a u8: bits shifted out are lost, without a fault.
Shl4(x) == (x * 16) % U8
Shr4(x) == x \div 16

\* A u8 sum or product: faults under overflow checks, else wraps.
U8Arith(v) ==
    IF v < U8 THEN [panic |-> FALSE, val |-> v]
    ELSE IF overflow_checks THEN [panic |-> TRUE, val |-> 0]
    ELSE [panic |-> FALSE, val |-> v % U8]

\* A variant that refuses a nibble above 9.
to_decimal_strict(bcd) ==
    IF Shr4(bcd) > 9 \/ BitAnd(bcd, 15) > 9
    THEN [panic |-> TRUE, val |-> 0]
    ELSE U8Arith((Shr4(bcd) * 10) + BitAnd(bcd, 15))

\* A variant weighting the tens nibble by 16.
to_decimal_hex(bcd) == U8Arith((Shr4(bcd) * 16) + BitAnd(bcd, 15))

to_decimal(bcd) == U8Arith((Shr4(bcd) * 10) + BitAnd(bcd, 15))

\* A variant splitting the value at 16 instead of 10.
from_decimal_base16(decimal) ==
    IF debug_assertions /\ ~(decimal <= 99)
    THEN [panic |-> TRUE, val |-> 0]
    ELSE [panic |-> FALSE, val |-> BitOr(Shl4(decimal \div 16), decimal % 16)]

\* A variant asserting decimal < 99.
from_decimal_off_by_one(decimal) ==
    IF debug_assertions /\ ~(decimal < 99)
    THEN [panic |-> TRUE, val |-> 0]
    ELSE [panic |-> FALSE, val |-> BitOr(Shl4(decimal \div 10), decimal % 10)]

\* A variant with the two nibbles in the opposite order.
from_decimal_swapped(decimal) ==
    IF debug_assertions /\ ~(decimal <= 99)
    THEN [panic |-> TRUE, val |-> 0]
    ELSE [panic |-> FALSE, val |-> BitOr(Shl4(decimal % 10), decimal \div 10)]

from_decimal(decimal) ==
    IF debug_assertions /\ ~(decimal <= 99)
    THEN [panic |-> TRUE, val |-> 0]
    ELSE [panic |-> FALSE, val |-> BitOr(Shl4(decimal \div 10), decimal % 10)]

----------------------------------------------------------------------------
(* The BCD codec applied to a byte, each call fed the previous output.     *)

InitBcd ==
    /\ profile \in Profiles
    /\ pc = "start"
    /\ dt = ZeroDt
    /\ op = "none"
    /\ arg = 0
    /\ old = ZeroDt
    /\ res = "none"
    /\ wd = "none"
    /\ bcd_in \in Bytes
    /\ bcd_calls = <<>>
    /\ fn_in = 0
    /\ fn_calls = <<>>

BcdCur == IF bcd_calls = <<>> THEN bcd_in ELSE bcd_calls[Len(bcd_calls)].out

BcdCanCall ==
    /\ Len(bcd_calls) < MaxCalls
    /\ bcd_calls # <<>> => ~bcd_calls[Len(bcd_calls)].panic

BcdCall(name, r) ==
    /\ BcdCanCall
    /\ bcd_calls' = Append(bcd_calls,
                           [fn |-> name, inp |-> BcdCur, out |-> r.val, panic |-> r.panic])
    /\ UNCHANGED <<profile, pc, dt, op, arg, old, res, wd, bcd_in, fn_in, fn_calls>>

ToDecimal == BcdCall("to_decimal", to_decimal(BcdCur))

FromDecimal == BcdCall("from_decimal", from_decimal(BcdCur))

NextBcd ==
    \/ ToDecimal
    \/ FromDecimal

SpecBcd == InitBcd /\ [][NextBcd]_vars

----------------------------------------------------------------------------
(* Free functions and conversions applied to an input, each call fed the   *)
(* previous one's output.  A value carries its Rust type in "kind".        *)

\* No DateTime and no BCD call: the part of the state these leave alone.
Idle ==
    /\ pc = "start"
    /\ dt = ZeroDt
    /\ op = "none"
    /\ arg = 0
    /\ old = ZeroDt
    /\ res = "none"
    /\ wd = "none"
    /\ bcd_in = 0
    /\ bcd_calls = <<>>

FnCur == IF fn_calls = <<>> THEN fn_in ELSE fn_calls[Len(fn_calls)].out

FnCall(name, out) ==
    /\ fn_calls' = Append(fn_calls, [fn |-> name, inp |-> FnCur, out |-> out])
    /\ UNCHANGED <<profile, pc, dt, op, arg, old, res, wd, bcd_in, bcd_calls, fn_in>>

\* A variant numbering the variants from 0, as an enum without explicit
\* discriminants would.
to_number_zero_based(w) ==
    CASE w = "Sunday" -> 0
      [] w = "Monday" -> 1
      [] w = "Tuesday" -> 2
      [] w = "Wednesday" -> 3
      [] w = "Thursday" -> 4
      [] w = "Friday" -> 5
      [] w = "Saturday" -> 6

\* Weekday::to_number: self as u8, the variant's discriminant.
to_number(w) ==
    CASE w = "Sunday" -> 1
      [] w = "Monday" -> 2
      [] w = "Tuesday" -> 3
      [] w = "Wednesday" -> 4
      [] w = "Thursday" -> 5
      [] w = "Friday" -> 6
      [] w = "Saturday" -> 7

InitWeekday ==
    /\ profile \in Profiles
    /\ Idle
    /\ fn_in \in ([kind : {"u8"}, val : Bytes] \cup [kind : {"Weekday"}, val : Weekdays])
    /\ fn_calls = <<>>

FromNumber ==
    /\ Len(fn_calls) < MaxCalls
    /\ FnCur.kind = "u8"
    /\ LET r == from_number(FnCur.val)
       IN  FnCall("from_number",
                  [kind |-> IF r \in Weekdays THEN "Weekday" ELSE "Err", val |-> r])

ToNumber ==
    /\ Len(fn_calls) < MaxCalls
    /\ FnCur.kind = "Weekday"
    /\ FnCall("to_number", [kind |-> "u8", val |-> to_number(FnCur.val)])

NextWeekday ==
    \/ FromNumber
    \/ ToNumber

SpecWeekday == InitWeekday /\ [][NextWeekday]_vars

\* is_leap_year applied to any 16-bit year.
InitLeap ==
    /\ profile \in Profiles
    /\ Idle
    /\ fn_in \in [kind : {"u16"}, val : 0..(U16 - 1)]
    /\ fn_calls = <<>>

IsLeapYear ==
    /\ fn_calls = <<>>
    /\ FnCall("is_leap_year", [kind |-> "bool", val |-> is_leap_year(fn_in.val)])

NextLeap == IsLeapYear

SpecLeap == InitLeap /\ [][NextLeap]_vars

\* days_in_month and validate_day applied to a raw year, month and day.
InitDays ==
    /\ profile \in Profiles
    /\ Idle
    /\ fn_in \in [kind : {"ymd"}, year : Years, month : Bytes, day_of_month : Days]
    /\ fn_calls = <<>>

DaysInMonth ==
    /\ fn_calls = <<>>
    /\ FnCall("days_in_month",
              [kind |-> "u8", val |-> days_in_month(fn_in.year, fn_in.month)])

ValidateDay ==
    /\ fn_calls = <<>>
    /\ FnCall("validate_day",
              [kind |-> "Result",
               val |-> validate_day(fn_in.year, fn_in.month, fn_in.day_of_month)])

NextDays ==
    \/ DaysInMonth
    \/ ValidateDay

SpecDays == InitDays /\ [][NextDays]_vars

\* The free function calculate_weekday applied to raw, unvalidated integers.
InitRaw ==
    /\ profile \in Profiles
    /\ Idle
    /\ fn_in \in [kind : {"ymd"}, year : Years, month : Months, day_of_month : Bytes]
    /\ fn_calls = <<>>

CalculateWeekdayRaw ==
    /\ fn_calls = <<>>
    /\ LET r == calculate_weekday(fn_in.year, fn_in.month, fn_in.day_of_month)
       IN  FnCall("calculate_weekday",
                  [kind |-> IF r \in Weekdays THEN "Weekday"
                            ELSE IF r = "Panic" THEN "Panic" ELSE "Err",
                   val |-> r])

NextRaw == CalculateWeekdayRaw

SpecRaw == InitRaw /\ [][NextRaw]_vars

----------------------------------------------------------------------------
(* square_wave.rs: SquareWaveFreq and its conversions to and from Hz.  A   *)
(* u32 is held as its two 16-bit halves; a variant without a payload has   *)
(* the payload 0, and two frequencies are equal when tag and payload are.  *)

Hz(n) == [hi |-> n \div U16, lo |-> n % U16]
U32Max == [hi |-> U16 - 1, lo |-> U16 - 1]

StdTags == {"Hz1", "Hz1024", "Hz4096", "Hz8192", "Hz32768"}
Std(tag) == [kind |-> "SquareWaveFreq", tag |-> tag, val |-> Hz(0)]
Custom(hz) == [kind |-> "SquareWaveFreq", tag |-> "Custom", val |-> hz]

to_hz(f) ==
    CASE f.tag = "Hz1" -> Hz(1)
      [] f.tag = "Hz1024" -> Hz(1024)
      [] f.tag = "Hz4096" -> Hz(4096)
      [] f.tag = "Hz8192" -> Hz(8192)
      [] f.tag = "Hz32768" -> Hz(32768)
      [] f.tag = "Custom" -> f.val

\* A variant without the arm for 8192.
from_hz_missing_arm(hz) ==
    CASE hz = Hz(1) -> Std("Hz1")
      [] hz = Hz(1024) -> Std("Hz1024")
      [] hz = Hz(4096) -> Std("Hz4096")
      [] hz = Hz(32768) -> Std("Hz32768")
      [] OTHER -> Custom(hz)

from_hz(hz) ==
    CASE hz = Hz(1) -> Std("Hz1")
      [] hz = Hz(1024) -> Std("Hz1024")
      [] hz = Hz(4096) -> Std("Hz4096")
      [] hz = Hz(8192) -> Std("Hz8192")
      [] hz = Hz(32768) -> Std("Hz32768")
      [] OTHER -> Custom(hz)

CustomHz ==
    {Hz(n) : n \in (0..MaxCustomHz) \cup {1023, 1024, 1025, 2048, 4095, 4096, 4097,
                                          8191, 8192, 8193, 32767, 32768, 32769}}
    \cup {U32Max}

InitSqw ==
    /\ profile \in Profiles
    /\ Idle
    /\ fn_in \in {Std(t) : t \in StdTags} \cup {Custom(hz) : hz \in CustomHz}
    /\ fn_calls = <<>>

ToHz ==
    /\ Len(fn_calls) < MaxCalls
    /\ FnCur.kind = "SquareWaveFreq"
    /\ FnCall("to_hz", [kind |-> "u32", val |-> to_hz(FnCur)])

FromHz ==
    /\ Len(fn_calls) < MaxCalls
    /\ FnCur.kind = "u32"
    /\ FnCall("from_hz", from_hz(FnCur.val))

NextSqw ==
    \/ ToHz
    \/ FromHz

SpecSqw == InitSqw /\ [][NextSqw]_vars

----------------------------------------------------------------------------
(* A caller moving a DateTime a to the value b with setters alone, in the  *)
(* order day 1, year, month, day, hour, minute, second.                    *)

SeqYears == {YearSamples[i] : i \in 1..NumSeqYears}

\* The values DateTime::new accepts, over the sampled arguments.
SeqDates ==
    {d \in [year : SeqYears, month : Months, day_of_month : Days,
            hour : {0}, minute : {0}, second : {0}] : validate(d) = "Ok"}
SeqTargets ==
    {d \in [year : SeqYears, month : Months, day_of_month : Days,
            hour : {0, 23}, minute : {0}, second : {0, 59}] : validate(d) = "Ok"}

InitSeq ==
    /\ profile \in Profiles
    /\ fn_in \in [kind : {"pair"}, a : SeqDates, b : SeqTargets]
    /\ pc = "live"
    /\ dt = fn_in.a
    /\ op = "new"
    /\ arg = fn_in.a
    /\ old = ZeroDt
    /\ res = "Ok"
    /\ wd = "none"
    /\ bcd_in = 0
    /\ bcd_calls = <<>>
    /\ fn_calls = <<>>

\* The i-th call of the sequence: setter name, argument, outcome r.
SeqStep(i, name, a, r) ==
    /\ pc = "live"
    /\ Len(fn_calls) = i - 1
    /\ op' = name
    /\ arg' = a
    /\ old' = dt
    /\ dt' = r.dt
    /\ res' = r.res
    /\ fn_calls' = Append(fn_calls, [fn |-> name, inp |-> a, out |-> r.res])
    /\ UNCHANGED <<profile, pc, wd, bcd_in, bcd_calls, fn_in>>

\* Variant: the first call re-sets the day a already has instead of day 1.
SeqDayOne_kept ==
    SeqStep(1, "set_day_of_month", dt.day_of_month,
            set_day_of_month(dt, dt.day_of_month))

SeqDayOne == SeqStep(1, "set_day_of_month", 1, set_day_of_month(dt, 1))

SeqYear == SeqStep(2, "set_year", fn_in.b.year, set_year(dt, fn_in.b.year))

SeqMonth == SeqStep(3, "set_month", fn_in.b.month, set_month(dt, fn_in.b.month))

SeqDay ==
    SeqStep(4, "set_day_of_month", fn_in.b.day_of_month,
            set_day_of_month(dt, fn_in.b.day_of_month))

SeqHour == SeqStep(5, "set_hour", fn_in.b.hour, set_hour(dt, fn_in.b.hour))

SeqMinute == SeqStep(6, "set_minute", fn_in.b.minute, set_minute(dt, fn_in.b.minute))

SeqSecond == SeqStep(7, "set_second", fn_in.b.second, set_second(dt, fn_in.b.second))

NextSeq ==
    \/ SeqDayOne
    \/ SeqYear
    \/ SeqMonth
    \/ SeqDay
    \/ SeqHour
    \/ SeqMinute
    \/ SeqSecond

SpecSeq == InitSeq /\ [][NextSeq]_vars

----------------------------------------------------------------------------
(* Properties of the DateTime state machine (specification Spec).          *)

SetterNames == {"set_year", "set_month", "set_day_of_month",
                "set_hour", "set_minute", "set_second"}

\* The field a setter targets.
FieldOf(name) ==
    CASE name = "set_year" -> "year"
      [] name = "set_month" -> "month"
      [] name = "set_day_of_month" -> "day_of_month"
      [] name = "set_hour" -> "hour"
      [] name = "set_minute" -> "minute"
      [] name = "set_second" -> "second"

\* The six range conditions on a record of six fields.
YearOk(d) == d.year >= 1970
MonthOk(d) == 1 <= d.month /\ d.month <= 12
DayOk(d) == 1 <= d.day_of_month /\ d.day_of_month <= days_in_month(d.year, d.month)
HourOk(d) == d.hour <= 23
MinuteOk(d) == d.minute <= 59
SecondOk(d) == d.second <= 59
AllOk(d) == YearOk(d) /\ MonthOk(d) /\ DayOk(d) /\ HourOk(d) /\ MinuteOk(d) /\ SecondOk(d)

\* C1: a DateTime that exists (after a successful new and any sequence of
\* setter calls, successful or not) has year >= 1970, month in 1..12, day in
\* 1..days_in_month(year, month), hour <= 23, minute <= 59, second <= 59.
C1_ValidityInvariant == pc = "live" => AllOk(dt)

\* set_month has failed its day re-validation on 2023-01-31, leaving it in place.
C1_Witness ==
    /\ pc = "live"
    /\ op = "set_month"
    /\ res = "InvalidDay"
    /\ dt.month = 1 /\ dt.day_of_month = 31 /\ dt.year = 2023

\* C2: when a setter returns an error, all six fields are as before the call.
C2_NoPartialMutation == (op \in SetterNames /\ res # "Ok") => dt = old

\* set_year passed its own range check and failed the day re-validation.
C2_Witness ==
    /\ op = "set_year"
    /\ res = "InvalidDay"
    /\ arg = 2023
    /\ old.year = 2024 /\ old.month = 2 /\ old.day_of_month = 29

\* C3: when a setter returns Ok, the targeted field equals the argument and
\* the other five fields are as before the call.
C3_SuccessFrame ==
    (op \in SetterNames /\ res = "Ok") => dt = [old EXCEPT ![FieldOf(op)] = arg]

\* set_month(3) on January 31 succeeded and the day is still 31.
C3_Witness ==
    /\ op = "set_month"
    /\ res = "Ok"
    /\ arg = 3
    /\ old.month = 1 /\ old.day_of_month = 31
    /\ dt.month = 3 /\ dt.day_of_month = 31

\* The Gregorian weekday by counting days from 1970-01-01, a Thursday.
RefLeap(y) == y % 4 = 0 /\ (y % 100 # 0 \/ y % 400 = 0)
RefMonthLen == <<31, 28, 31, 30, 31, 30, 31, 31, 30, 31, 30, 31>>
RefLeapsBefore(y) == ((y - 1) \div 4) - ((y - 1) \div 100) + ((y - 1) \div 400)
RECURSIVE RefDaysBeforeMonth(_, _)
RefDaysBeforeMonth(y, m) ==
    IF m <= 1 THEN 0
    ELSE RefDaysBeforeMonth(y, m - 1) + RefMonthLen[m - 1]
         + (IF m - 1 = 2 /\ RefLeap(y) THEN 1 ELSE 0)
RefDaysSinceEpoch(d) ==
    365 * (d.year - 1970) + RefLeapsBefore(d.year) - RefLeapsBefore(1970)
    + RefDaysBeforeMonth(d.year, d.month) + (d.day_of_month - 1)
RefWeekdayNames == <<"Sunday", "Monday", "Tuesday", "Wednesday",
                     "Thursday", "Friday", "Saturday">>
RefWeekday(d) == RefWeekdayNames[((4 + RefDaysSinceEpoch(d)) % 7) + 1]

\* C4: on a validated DateTime, calculate_weekday completes and returns Ok:
\* it neither returns an error nor faults on an arithmetic underflow.
C4_WeekdayNeverFails == op = "calculate_weekday" => res = "Ok"

\* C5: the weekday that calculate_weekday returns on a validated DateTime is
\* the Gregorian day of the week of the current year, month and day_of_month.
C5_WeekdayCorrect == (op = "calculate_weekday" /\ res = "Ok") => wd = RefWeekday(dt)

\* The first range condition, in the order year, month, day, hour, minute,
\* second, that a record of six fields breaks.
FirstFailure(d) ==
    IF ~YearOk(d) THEN "InvalidYear"
    ELSE IF ~MonthOk(d) THEN "InvalidMonth"
    ELSE IF ~DayOk(d) THEN "InvalidDay"
    ELSE IF ~HourOk(d) THEN "InvalidHour"
    ELSE IF ~MinuteOk(d) THEN "InvalidMinute"
    ELSE IF ~SecondOk(d) THEN "InvalidSecond"
    ELSE "Ok"

\* C6: DateTime::new given arguments invalid in several fields returns the
\* error of the first failing field in the order year, month, day, hour,
\* minute, second.
C6_ConstructorErrorOrder == (op = "new" /\ res # "Ok") => res = FirstFailure(arg)

\* new was given a valid year, month 13, a day and hour 24, and said InvalidMonth.
C6_Witness ==
    /\ op = "new"
    /\ arg.year = 2024 /\ arg.month = 13 /\ arg.day_of_month = 31 /\ arg.hour = 24
    /\ res = "InvalidMonth"

\* C7: DateTime::new returns Ok if and only if all six arguments are in range
\* (the year only bounded below), and on Ok the six fields are the arguments.
C7_ConstructorAcceptance ==
    op = "new" =>
        /\ res = "Ok" <=> AllOk(arg)
        /\ res = "Ok" => (pc = "live" /\ dt = arg)

\* new accepted the largest 16-bit year.
C7_Witness ==
    /\ op = "new"
    /\ res = "Ok"
    /\ arg.year = 65535 /\ arg.month = 12 /\ arg.day_of_month = 31
    /\ dt.year = 65535

\* C8: set_year(y) returns InvalidYear if y < 1970, else InvalidDay if the
\* existing day exceeds days_in_month(y, current month), else Ok; set_month(m)
\* returns InvalidMonth if m is outside 1..12, else InvalidDay if the existing
\* day exceeds days_in_month(current year, m), else Ok.
C8_CrossFieldRevalidation ==
    /\ op = "set_year" =>
          res = IF arg < 1970 THEN "InvalidYear"
                ELSE IF old.day_of_month > days_in_month(arg, old.month) THEN "InvalidDay"
                ELSE "Ok"
    /\ op = "set_month" =>
          res = IF arg < 1 \/ arg > 12 THEN "InvalidMonth"
                ELSE IF old.day_of_month > days_in_month(old.year, arg) THEN "InvalidDay"
                ELSE "Ok"

\* set_year(2024) on 2023-02-28 succeeded, after set_year to a non-leap year
\* would have been refused for the 29th.
C8_Witness ==
    /\ op = "set_year"
    /\ res = "Ok"
    /\ arg = 2024
    /\ old.year = 2023 /\ old.month = 2 /\ old.day_of_month = 28

\* What DateTime::new returns for the fields before the last setter call with
\* the targeted field replaced by the argument.
NewWithArg ==
    LET c == [old EXCEPT ![FieldOf(op)] = arg]
    IN  new(c.year, c.month, c.day_of_month, c.hour, c.minute, c.second)

\* C18: a setter called with v on a valid DateTime returns what DateTime::new
\* returns for the six fields with the targeted one replaced by v, and on Ok
\* the resulting state is the value new would have produced.
C18_SettersAgreeWithNew ==
    op \in SetterNames =>
        /\ res = NewWithArg.res
        /\ res = "Ok" => dt = NewWithArg.dt

\* set_day_of_month(30) on a February date said InvalidDay, as new would.
C18_Witness ==
    /\ op = "set_day_of_month"
    /\ arg = 30
    /\ old.month = 2 /\ old.year = 2024
    /\ res = "InvalidDay"

----------------------------------------------------------------------------
(* Properties of the BCD codec (specification SpecBcd).                    *)

\* The first call was from_decimal and the second to_decimal.
EncodedThenDecoded ==
    /\ Len(bcd_calls) >= 2
    /\ bcd_calls[1].fn = "from_decimal"
    /\ bcd_calls[2].fn = "to_decimal"

\* C9: for every d in 0..99, to_decimal(from_decimal(d)) = d.
C9_BcdRoundTrip ==
    (EncodedThenDecoded /\ bcd_in <= 99) =>
        /\ ~bcd_calls[1].panic
        /\ ~bcd_calls[2].panic
        /\ bcd_calls[2].out = bcd_in

\* 59 was encoded as 0x59 and decoded back.
C9_Witness ==
    /\ EncodedThenDecoded
    /\ bcd_in = 59
    /\ bcd_calls[1].out = 89
    /\ bcd_calls[2].out = 59

\* The first call was from_decimal in a build without debug assertions.
EncodedUnchecked ==
    /\ Len(bcd_calls) >= 1
    /\ bcd_calls[1].fn = "from_decimal"
    /\ ~debug_assertions

\* C10 as stated: for every input in 100..255, without the debug assertion,
\* from_decimal returns a byte whose high nibble is >= 10.
C10_HighNibbleAtLeastTen ==
    (EncodedUnchecked /\ bcd_in >= 100) => bcd_calls[1].out \div 16 >= 10

\* C10 as amended: without the debug assertion, from_decimal never faults;
\* for an input in 100..159 the high nibble is input / 10, which is >= 10; for
\* an input in 160..255 the tens do not fit four bits and the high nibble is
\* input / 10 - 16, which is <= 9; the low nibble is input % 10.
C10_HighNibbleWraps ==
    (EncodedUnchecked /\ bcd_in >= 100) =>
        /\ ~bcd_calls[1].panic
        /\ bcd_calls[1].out % 16 = bcd_in % 10
        /\ bcd_in <= 159 =>
              (bcd_calls[1].out \div 16 = bcd_in \div 10 /\ bcd_calls[1].out \div 16 >= 10)
        /\ bcd_in >= 160 =>
              (bcd_calls[1].out \div 16 = (bcd_in \div 10) - 16 /\ bcd_calls[1].out \div 16 <= 9)

\* 255 was encoded as 0x95: a high nibble of 9.
C10_Witness ==
    /\ EncodedUnchecked
    /\ bcd_in = 255
    /\ bcd_calls[1].out = 149

\* The first call was to_decimal.
Decoded ==
    /\ Len(bcd_calls) >= 1
    /\ bcd_calls[1].fn = "to_decimal"

\* C11: for every byte b, also one with a nibble >= 10, to_decimal(b) returns
\* (b >> 4) * 10 + (b & 0x0F): it rejects nothing and the u8 result does not
\* overflow.
C11_ToDecimalTotal ==
    Decoded =>
        /\ ~bcd_calls[1].panic
        /\ bcd_calls[1].out = ((bcd_in \div 16) * 10) + (bcd_in % 16)
        /\ bcd_calls[1].out < U8

\* 0xFF, the largest result, was decoded to 165 with overflow checks on.
C11_Witness ==
    /\ Decoded
    /\ bcd_in = 255
    /\ bcd_calls[1].out = 165
    /\ overflow_checks

\* The first call was from_decimal in a build with debug assertions.
EncodedChecked ==
    /\ Len(bcd_calls) >= 1
    /\ bcd_calls[1].fn = "from_decimal"
    /\ debug_assertions

\* C15: with debug assertions enabled, from_decimal(decimal) raises an
\* assertion fault if and only if decimal > 99; for every decimal in 0..99 it
\* returns ((decimal / 10) << 4) | (decimal % 10), both nibbles at most 9.
C15_FromDecimalPrecondition ==
    EncodedChecked =>
        /\ bcd_calls[1].panic <=> bcd_in > 99
        /\ bcd_in <= 99 =>
              /\ bcd_calls[1].out = ((bcd_in \div 10) * 16) + (bcd_in % 10)
              /\ bcd_calls[1].out \div 16 <= 9
              /\ bcd_calls[1].out % 16 <= 9

\* 100 raised the assertion fault.
C15_Witness ==
    /\ EncodedChecked
    /\ bcd_in = 100
    /\ bcd_calls[1].panic

\* The first call was to_decimal and the second from_decimal.
DecodedThenEncoded ==
    /\ Len(bcd_calls) >= 2
    /\ bcd_calls[1].fn = "to_decimal"
    /\ bcd_calls[2].fn = "from_decimal"

\* Both nibbles of the byte are decimal digits.
ValidBcd(b) == b \div 16 <= 9 /\ b % 16 <= 9

\* C19: for every byte b whose nibbles are both <= 9, to_decimal(b) <= 99 and
\* from_decimal(to_decimal(b)) = b; for every byte with a nibble >= 10, either
\* to_decimal(b) > 99 or from_decimal(to_decimal(b)) # b.
C19_ReverseRoundTrip ==
    /\ (Decoded /\ ValidBcd(bcd_in)) => bcd_calls[1].out <= 99
    /\ (DecodedThenEncoded /\ ValidBcd(bcd_in)) =>
          (~bcd_calls[2].panic /\ bcd_calls[2].out = bcd_in)
    /\ (DecodedThenEncoded /\ ~ValidBcd(bcd_in)) =>
          (bcd_calls[1].out > 99 \/ bcd_calls[2].out # bcd_in)

\* 0x0A was decoded to 10 and encoded as 0x10; it did not come back.
C19_Witness ==
    /\ DecodedThenEncoded
    /\ bcd_in = 10
    /\ bcd_calls[1].out = 10
    /\ bcd_calls[2].out = 16

----------------------------------------------------------------------------
(* Properties of the Weekday numbering (specification SpecWeekday).        *)

\* C12: for every n in 1..7, from_number(n) succeeds, with 1 = Sunday, ...,
\* 7 = Saturday, and from_number(n).to_number() = n; for every weekday w,
\* from_number(w.to_number()) = Ok(w); for every other 8-bit n, from_number(n)
\* fails with InvalidWeekday.
C12_WeekdayBijection ==
    /\ (fn_in.kind = "u8" /\ Len(fn_calls) >= 1) =>
          IF fn_in.val \in 1..7
          THEN /\ fn_calls[1].out.kind = "Weekday"
               /\ fn_calls[1].out.val = RefWeekdayNames[fn_in.val]
          ELSE /\ fn_calls[1].out.kind = "Err"
               /\ fn_calls[1].out.val = "InvalidWeekday"
    /\ (fn_in.kind = "u8" /\ Len(fn_calls) >= 2) =>
          (fn_calls[2].out.kind = "u8" /\ fn_calls[2].out.val = fn_in.val)
    /\ (fn_in.kind = "Weekday" /\ Len(fn_calls) >= 2) =>
          (fn_calls[2].out.kind = "Weekday" /\ fn_calls[2].out.val = fn_in.val)

\* 7 became Saturday and Saturday became 7 again.
C12_Witness ==
    /\ fn_in.kind = "u8" /\ fn_in.val = 7
    /\ Len(fn_calls) = 2
    /\ fn_calls[1].fn = "from_number" /\ fn_calls[1].out.val = "Saturday"
    /\ fn_calls[2].fn = "to_number" /\ fn_calls[2].out.val = 7

----------------------------------------------------------------------------
(* Properties of the calendar helpers (specifications SpecLeap, SpecDays). *)

Divisible(n, d) == (n \div d) * d = n

\* C13: for every 16-bit year, is_leap_year(year) is true if and only if the
\* year is divisible by 4 and (not divisible by 100 or divisible by 400).
C13_LeapYearRule ==
    Len(fn_calls) >= 1 /\ fn_calls[1].fn = "is_leap_year" =>
        (fn_calls[1].out.val <=>
            (Divisible(fn_in.val, 4)
             /\ (~Divisible(fn_in.val, 100) \/ Divisible(fn_in.val, 400))))

\* 1900, a century year not divisible by 400, was found not to be a leap year.
C13_Witness ==
    /\ Len(fn_calls) = 1
    /\ fn_calls[1].fn = "is_leap_year"
    /\ fn_in.val = 1900
    /\ fn_calls[1].out.val = FALSE

\* C14: days_in_month returns 31 for months 1, 3, 5, 7, 8, 10, 12, 30 for
\* months 4, 6, 9, 11, 29 or 28 for month 2 according to is_leap_year(year),
\* and 0 for every other 8-bit month; so the day check fails with InvalidDay
\* for every day whenever the month is outside 1..12.
C14_MonthLengths ==
    /\ (Len(fn_calls) >= 1 /\ fn_calls[1].fn = "days_in_month") =>
          fn_calls[1].out.val =
              IF fn_in.month \in {1, 3, 5, 7, 8, 10, 12} THEN 31
              ELSE IF fn_in.month \in {4, 6, 9, 11} THEN 30
              ELSE IF fn_in.month = 2 THEN (IF is_leap_year(fn_in.year) THEN 29 ELSE 28)
              ELSE 0
    /\ (Len(fn_calls) >= 1 /\ fn_calls[1].fn = "validate_day"
        /\ fn_in.month \notin 1..12) =>
          fn_calls[1].out.val = "InvalidDay"

\* The day check refused day 1 of month 13.
C14_Witness ==
    /\ Len(fn_calls) = 1
    /\ fn_calls[1].fn = "validate_day"
    /\ fn_in.month = 13 /\ fn_in.day_of_month = 1 /\ fn_in.year = 2024
    /\ fn_calls[1].out.val = "InvalidDay"

----------------------------------------------------------------------------
(* Properties of calculate_weekday on raw integers (specification SpecRaw). *)

\* C16: for every raw year, month and day on which the arithmetic of
\* calculate_weekday completes, validated or not, the computed weekday number
\* lies in 1..7: the function returns Ok and never Err(InvalidWeekday).
C16_InvalidWeekdayUnreachable ==
    (Len(fn_calls) >= 1 /\ fn_calls[1].fn = "calculate_weekday"
     /\ fn_calls[1].out.kind # "Panic") =>
        /\ fn_calls[1].out.kind = "Weekday"
        /\ fn_calls[1].out.val \in Weekdays

\* Month 13 with day 32 was not rejected: a weekday came back.
C16_Witness ==
    /\ Len(fn_calls) = 1
    /\ fn_calls[1].fn = "calculate_weekday"
    /\ fn_in.year = 2024 /\ fn_in.month = 13 /\ fn_in.day_of_month = 32
    /\ fn_calls[1].out.kind = "Weekday"

----------------------------------------------------------------------------
(* Properties of SquareWaveFreq (specification SpecSqw).                   *)

\* The first call was to_hz and the second from_hz.
HzRoundTrip ==
    /\ Len(fn_calls) >= 2
    /\ fn_calls[1].fn = "to_hz"
    /\ fn_calls[2].fn = "from_hz"

\* The five standard frequencies.
StdHz == {Hz(1), Hz(1024), Hz(4096), Hz(8192), Hz(32768)}

\* C17 as stated: for every SquareWaveFreq f, the five standard variants and
\* Custom(n) for every n, from_hz(f.to_hz()) = f.
C17_HzRoundTrip == HzRoundTrip => fn_calls[2].out = fn_in

\* C17 as amended: from_hz(f.to_hz()) = f for the five standard variants and
\* for Custom(n) with n not a standard frequency; for Custom(n) with n one of
\* 1, 1024, 4096, 8192, 32768 it is the standard variant of that frequency,
\* which differs from f and has the same to_hz.
C17_HzRoundTripExceptCustomStd ==
    HzRoundTrip =>
        IF fn_in.tag = "Custom" /\ fn_in.val \in StdHz
        THEN /\ fn_calls[2].out.tag \in StdTags
             /\ fn_calls[2].out # fn_in
             /\ to_hz(fn_calls[2].out) = fn_in.val
        ELSE fn_calls[2].out = fn_in

\* Custom(1024) came back as Hz1024.
C17_Witness ==
    /\ HzRoundTrip
    /\ fn_in = Custom(Hz(1024))
    /\ fn_calls[2].out = Std("Hz1024")

----------------------------------------------------------------------------
(* Properties of the setter sequence (specification SpecSeq).              *)

\* C20: for every pair of valid values a and b, starting from a the calls
\* set_day_of_month(1), set_year(b.year), set_month(b.month),
\* set_day_of_month(b.day), set_hour(b.hour), set_minute(b.minute),
\* set_second(b.second) all return Ok and end in a state equal to b.
C20_ReachableBySetters ==
    /\ \A i \in 1..Len(fn_calls) : fn_calls[i].out = "Ok"
    /\ Len(fn_calls) = 7 => dt = fn_in.b

\* The sequence took January 31 to February 29 of the same leap year, a pair
\* for which set_month(2) called first on a fails with InvalidDay.
C20_Witness ==
    /\ Len(fn_calls) = 7
    /\ fn_in.a.year = 2000 /\ fn_in.a.month = 1 /\ fn_in.a.day_of_month = 31
    /\ fn_in.b.year = 2000 /\ fn_in.b.month = 2 /\ fn_in.b.day_of_month = 29
    /\ fn_in.b.hour = 23 /\ fn_in.b.second = 59
    /\ dt = fn_in.b
    /\ set_month(fn_in.a, fn_in.b.month).res = "InvalidDay"

====
